---- MODULE Spec2Model ----
(***************************************************************************)
(* Model of the query-language front end: the schema type layer of         *)
(* internal/types.go (Type variants, String, IsScalarType, IsArgumentType) *)
(* and the lexer / recursive-descent parser exercised by                   *)
(* internal/parser_test.go (Parse, parseValueLiteral, parseType).          *)
(*                                                                         *)
(* Source text is a sequence of character runs: a run is a maximal run of  *)
(* letters, a maximal run of digits, a run of blanks, or one other         *)
(* character.  Columns are counted in characters (Len of a run).           *)
(* A nil-able Go pointer or interface is a sequence of length 0 or 1.      *)
(***************************************************************************)
EXTENDS Integers, Sequences, FiniteSets, TLC

VARIABLES source, pc, doc, err, typ, scalar, argument, ref

vars == <<source, pc, doc, err, typ, scalar, argument, ref>>

\* Bounds of the model.
MaxWrap == 3
MaxDepth == 3

(***************************************************************************)
(* Type system (internal/types.go)                                         *)
(***************************************************************************)

NamedKinds == {"Scalar", "Object", "Interface", "Union", "Enum", "InputObject"}

TypeNames == {"Int", "Foo"}

\* The six named variants: a Name each (Desc and the callbacks play no part here).
NamedTypes == {[kind |-> k, Name |-> n] : k \in NamedKinds, n \in TypeNames}

\* type List struct { Type Type }
List(t) == [kind |-> "List", Type |-> t]

\* type NonNull struct { Type Type }
NonNull(t) == [kind |-> "NonNull", Type |-> t]

RECURSIVE TypesUpTo(_)
TypesUpTo(d) ==
    IF d = 0 THEN NamedTypes
    ELSE LET P == TypesUpTo(d - 1)
         IN  P \cup {List(t) : t \in P} \cup {NonNull(t) : t \in P}

Types == TypesUpTo(MaxWrap)

RECURSIVE IsScalarTypeNoList(_)
IsScalarTypeNoList(t) ==
    CASE t.kind = "Scalar" -> TRUE
      [] t.kind = "NonNull" -> IsScalarTypeNoList(t.Type)
      [] OTHER -> FALSE

\* An Object counts as a scalar too.
RECURSIVE IsScalarTypeWithObject(_)
IsScalarTypeWithObject(t) ==
    CASE t.kind \in {"Scalar", "Object"} -> TRUE
      [] t.kind = "List" -> IsScalarTypeWithObject(t.Type)
      [] t.kind = "NonNull" -> IsScalarTypeWithObject(t.Type)
      [] OTHER -> FALSE

RECURSIVE IsScalarType(_)
IsScalarType(t) ==
    CASE t.kind = "Scalar" -> TRUE
      [] t.kind = "List" -> IsScalarType(t.Type)
      [] t.kind = "NonNull" -> IsScalarType(t.Type)
      [] OTHER -> FALSE

RECURSIVE IsArgumentTypeNoEnum(_)
IsArgumentTypeNoEnum(t) ==
    CASE t.kind \in {"Scalar", "InputObject"} -> TRUE
      [] t.kind = "List" -> IsArgumentTypeNoEnum(t.Type)
      [] t.kind = "NonNull" -> IsArgumentTypeNoEnum(t.Type)
      [] OTHER -> FALSE

RECURSIVE IsArgumentType(_)
IsArgumentType(t) ==
    CASE t.kind \in {"Scalar", "InputObject", "Enum"} -> TRUE
      [] t.kind = "List" -> IsArgumentType(t.Type)
      [] t.kind = "NonNull" -> IsArgumentType(t.Type)
      [] OTHER -> FALSE

RECURSIVE StringPrefixBang(_)
StringPrefixBang(t) ==
    CASE t.kind = "List" -> <<"[">> \o StringPrefixBang(t.Type) \o <<"]">>
      [] t.kind = "NonNull" -> <<"!">> \o StringPrefixBang(t.Type)
      [] OTHER -> <<t.Name>>

\* String(): the text as character runs; a type name is one run of letters.
RECURSIVE String(_)
String(t) ==
    CASE t.kind = "List" -> <<"[">> \o String(t.Type) \o <<"]">>
      [] t.kind = "NonNull" -> String(t.Type) \o <<"!">>
      [] OTHER -> <<t.Name>>

(***************************************************************************)
(* Lexer                                                                   *)
(***************************************************************************)

\* The runs of letters and of digits that occur in the inputs.
Letters ==
    {"query", "mutation", "subscription", "fragment", "on", "true", "false", "null",
     "a", "b", "c", "e", "E", "x", "u", "A", "var", "arg", "field", "complex", "alias",
     "Foo", "Complex", "Boolean", "Int", "MyType", "String", "bar", "Operation",
     "MissingOn", "notAnOperation", "node", "id", "name", "mutationField",
     "subscriptionField", "Has", "This", "comment", "has", "multi", "byte", "character",
     "abc"}

Digits == {"0", "4", "5", "10", "123"}

Blank ==
    {" ", "\t", ",", "  ", "    ", "      ", "        ", "          ", "            "}

Punct == {"{", "}", "(", ")", "[", "]", ":", "$", "!", "|", "&", ".", "@", "="}

RECURSIVE Join(_, _, _)
Join(src, i, j) == IF i > j THEN "" ELSE src[i] \o Join(src, i + 1, j)

RECURSIVE Width(_, _, _)
Width(src, i, j) == IF i > j THEN 0 ELSE Len(src[i]) + Width(src, i + 1, j)

\* First index from j on that does not continue a Name.
RECURSIVE NameEnd(_, _)
NameEnd(src, j) ==
    IF j <= Len(src) /\ src[j] \in Letters \cup Digits THEN NameEnd(src, j + 1) ELSE j

\* First index from j on that ends a comment: the newline, or the end of input.
RECURSIVE CommentEnd(_, _)
CommentEnd(src, j) ==
    IF j <= Len(src) /\ src[j] # "\n" THEN CommentEnd(src, j + 1) ELSE j

\* Index of the unescaped closing quote of a string whose content starts at j; 0 if none.
RECURSIVE StringEnd(_, _)
StringEnd(src, j) ==
    IF j > Len(src) \/ src[j] = "\n" THEN 0
    ELSE IF src[j] = "\\" THEN StringEnd(src, j + 2)
    ELSE IF src[j] = "\"" THEN j
    ELSE StringEnd(src, j + 1)

IsDigitsAt(src, j) == j <= Len(src) /\ src[j] \in Digits

\* A number starting at i: [end |-> first index after it, float |-> has "." or exponent].
NumberEnd(src, i) ==
    LET d == IF src[i] = "-" THEN i + 2 ELSE i + 1
        f == IF d <= Len(src) /\ src[d] = "." /\ IsDigitsAt(src, d + 1) THEN d + 2 ELSE d
        x == IF f <= Len(src) /\ src[f] \in {"e", "E"}
             THEN IF IsDigitsAt(src, f + 1) THEN f + 2
                  ELSE IF f + 1 <= Len(src) /\ src[f + 1] \in {"+", "-"} /\ IsDigitsAt(src, f + 2)
                       THEN f + 3 ELSE f
             ELSE f
    IN  [end |-> x, float |-> x > d]

Token(k, v, line, col, i) == [kind |-> k, val |-> v, line |-> line, col |-> col, idx |-> i]

\* A newline keeps the column running instead of resetting it to 1.
NewlineKeepsColumn(line, col) == [line |-> line + 1, col |-> col + 1]

\* The cursor after a newline: next line, column 1.
Newline(line, col) == [line |-> line + 1, col |-> 1]

\* skipWhitespace: the cursor [pos, line, col] after the whitespace, commas and
\* comments that start at run pos.
RECURSIVE skipWhitespace(_, _, _, _)
skipWhitespace(src, pos, line, col) ==
    IF pos > Len(src) THEN [pos |-> pos, line |-> line, col |-> col]
    ELSE LET c == src[pos]
         IN  CASE c = "\n" ->
                    LET n == Newline(line, col) IN skipWhitespace(src, pos + 1, n.line, n.col)
               [] c \in Blank -> skipWhitespace(src, pos + 1, line, col + Len(c))
               [] c = "#" ->
                    LET j == CommentEnd(src, pos)
                    IN  skipWhitespace(src, j, line, col + Width(src, pos, j - 1))
               [] OTHER -> [pos |-> pos, line |-> line, col |-> col]

\* The value v handed to what follows it.
With(v, F(_)) == F(v)

\* The lexer after scanning one token from the cursor: tok is the lookahead token
\* (kind "Illegal" for a character that cannot begin a token), and pos, line, col
\* the cursor behind it.
Lex(src, pos, line, col) ==
    With(skipWhitespace(src, pos, line, col), LAMBDA w :
      LET i == w.pos
          lexer(end, kind, val) ==
              [pos |-> end, line |-> w.line, col |-> w.col + Width(src, i, end - 1),
               tok |-> Token(kind, val, w.line, w.col, i)]
      IN  IF i > Len(src) THEN lexer(i, "EOF", "")
          ELSE LET c == src[i]
               IN  CASE c \in Punct -> lexer(i + 1, c, c)
                     [] c \in Letters ->
                          With(NameEnd(src, i + 1), LAMBDA j :
                            lexer(j, "Ident", Join(src, i, j - 1)))
                     [] c \in Digits \/ (c = "-" /\ IsDigitsAt(src, i + 1)) ->
                          With(NumberEnd(src, i), LAMBDA n :
                            lexer(n.end, IF n.float THEN "Float" ELSE "Int",
                                  Join(src, i, n.end - 1)))
                     [] c = "\"" /\ StringEnd(src, i + 1) # 0 ->
                          With(StringEnd(src, i + 1), LAMBDA k :
                            lexer(k + 1, "String", Join(src, i + 1, k - 1)))
                     [] OTHER -> lexer(i + 1, "Illegal", c))

\* NewLexer(source) and the first skipWhitespace: the cursor starts at line 1,
\* column 1, and the first token becomes the lookahead.
NewLexer(src) == Lex(src, 1, 1, 1)

\* Location(): the position of the lookahead token.
Location(l) == [Line |-> l.tok.line, Column |-> l.tok.col]

(***************************************************************************)
(* Errors and token consumption                                            *)
(*                                                                         *)
(* A parse function returns [ok |-> TRUE, l, node] (l: the lexer after it) *)
(* or [ok |-> FALSE, err]: the syntax error that ends Parse.               *)
(* An AST node carries at, the run at which its first token starts; an    *)
(* error carries tok, the token its message names.                         *)
(* Both are bookkeeping of the model, not fields of the program.           *)
(***************************************************************************)

Ok(l, node) == [ok |-> TRUE, l |-> l, node |-> node]

Fail(e) == [ok |-> FALSE, err |-> e]

\* What follows a step: F of its result o when it succeeded, its failure otherwise.
Then(o, F(_)) == IF o.ok THEN F(o) ELSE o

\* A syntax error that loses the "Syntax Error: " prefix.
SyntaxErrorNoPrefix(l, text, tok) ==
    [Message |-> text, Locations |-> <<Location(l)>>, tok |-> tok]

\* GraphQLError{Message: "Syntax Error: ...", Locations: {l.Location()}} about token tok.
SyntaxError(l, text, tok) ==
    [Message |-> "Syntax Error: " \o text, Locations |-> <<Location(l)>>, tok |-> tok]

\* The name of an expected token kind: Ident for a Name, the quoted character otherwise.
TokenString(k) == IF k \in {"Ident", "Int", "Float", "String", "EOF"} THEN k ELSE "\"" \o k \o "\""

ExpectedText(exp, found) == "Expected " \o exp \o ", found \"" \o found \o "\"."

UnexpectedText(v) == "Unexpected \"" \o v \o "\"."

UnexpectedNameText(v) == "Unexpected Name \"" \o v \o "\"."

\* "Unexpected %q." of the token's name: the name's own quotes come out escaped.
UnexpectedTokenText(k) ==
    IF k \in {"Ident", "Int", "Float", "String", "EOF"}
    THEN "Unexpected \"" \o k \o "\"."
    ELSE "Unexpected \"\\\"" \o k \o "\\\"\"."

\* The lexer moves to the token after the lookahead; a character that cannot begin
\* a token is a syntax error at that character.
Advance(src, l) ==
    With(Lex(src, l.pos, l.line, l.col), LAMBDA n :
      IF n.tok.kind = "Illegal"
      THEN Fail(SyntaxError(n, UnexpectedText(n.tok.val), n.tok))
      ELSE Ok(n, <<>>))

ConsumeToken(src, l, k) ==
    IF l.tok.kind # k
    THEN Fail(SyntaxError(l, ExpectedText(TokenString(k), l.tok.val), l.tok))
    ELSE Advance(src, l)

ConsumeKeyword(src, l, kw) ==
    IF l.tok.kind # "Ident" \/ l.tok.val # kw
    THEN Fail(SyntaxError(l, ExpectedText(TokenString(kw), l.tok.val), l.tok))
    ELSE Advance(src, l)

NameNode(src, l) == [Kind |-> "Name", Loc |-> Location(l), Name |-> l.tok.val, at |-> l.tok.idx]

\* A Name token becomes a Name node located at the token.
ConsumeIdentWithLoc(src, l) ==
    IF l.tok.kind # "Ident"
    THEN Fail(SyntaxError(l, ExpectedText("Ident", l.tok.val), l.tok))
    ELSE Then(Advance(src, l), LAMBDA a : Ok(a.l, NameNode(src, l)))

(***************************************************************************)
(* Parser: values, type references, arguments, directives                  *)
(***************************************************************************)

RECURSIVE parseValueLiteral(_, _, _)
RECURSIVE parseListValues(_, _, _, _)
RECURSIVE parseObjectFields(_, _, _, _)
RECURSIVE parseType(_, _)
RECURSIVE parseArgumentList(_, _, _)
RECURSIVE parseDirectives(_, _, _)
RECURSIVE parseVariableDefinitions(_, _, _)
RECURSIVE parseSelectionSet(_, _)
RECURSIVE parseSelections(_, _, _)
RECURSIVE parseDefinitions(_, _, _)

Leaf(kind, src, l) ==
    Then(Advance(src, l), LAMBDA a :
      Ok(a.l, [Kind |-> kind, Loc |-> Location(l), Value |-> l.tok.val, at |-> l.tok.idx]))

\* A nested value is parsed as if variables were always allowed.
InheritedFlagDropped(constant) == FALSE

\* The constant flag that a nested list or object value is parsed with.
InheritedFlag(constant) == constant

parseVariable(src, l) ==
    Then(ConsumeToken(src, l, "$"), LAMBDA d :
    Then(ConsumeIdentWithLoc(src, d.l), LAMBDA n :
      Ok(n.l, [Kind |-> "Variable", Loc |-> Location(l), Name |-> n.node, at |-> l.tok.idx])))

parseValueLiteral(src, l, constant) ==
    LET k == l.tok.kind
    IN  CASE k = "$" ->
               IF constant
               THEN Fail(SyntaxError(l, UnexpectedTokenText(k), l.tok))
               ELSE parseVariable(src, l)
          [] k \in {"Int", "Float", "String"} -> Leaf(k \o "Value", src, l)
          [] k = "Ident" ->
               Leaf(CASE l.tok.val \in {"true", "false"} -> "BooleanValue"
                      [] l.tok.val = "null" -> "NullValue"
                      [] OTHER -> "EnumValue", src, l)
          [] k = "[" ->
               Then(ConsumeToken(src, l, "["), LAMBDA o :
               Then(parseListValues(src, o.l, InheritedFlag(constant), <<>>), LAMBDA v :
               Then(ConsumeToken(src, v.l, "]"), LAMBDA c :
                 Ok(c.l, [Kind |-> "ListValue", Loc |-> Location(l),
                          Values |-> v.node, at |-> l.tok.idx]))))
          [] k = "{" ->
               Then(ConsumeToken(src, l, "{"), LAMBDA o :
               Then(parseObjectFields(src, o.l, InheritedFlag(constant), <<>>), LAMBDA v :
               Then(ConsumeToken(src, v.l, "}"), LAMBDA c :
                 Ok(c.l, [Kind |-> "ObjectValue", Loc |-> Location(l),
                          Fields |-> v.node, at |-> l.tok.idx]))))
          [] OTHER -> Fail(SyntaxError(l, UnexpectedTokenText(k), l.tok))

parseListValues(src, l, constant, acc) ==
    IF l.tok.kind = "]" THEN Ok(l, acc)
    ELSE Then(parseValueLiteral(src, l, constant), LAMBDA v :
           parseListValues(src, v.l, constant, Append(acc, v.node)))

parseObjectFields(src, l, constant, acc) ==
    IF l.tok.kind = "}" THEN Ok(l, acc)
    ELSE Then(ConsumeIdentWithLoc(src, l), LAMBDA n :
         Then(ConsumeToken(src, n.l, ":"), LAMBDA c :
         Then(parseValueLiteral(src, c.l, constant), LAMBDA v :
           parseObjectFields(src, v.l, constant,
               Append(acc, [Kind |-> "ObjectField", Loc |-> Location(l),
                            Name |-> n.node, Value |-> v.node, at |-> l.tok.idx])))))

\* Named, or '[' Type ']'.
parseNullType(src, l) ==
    IF l.tok.kind = "["
    THEN Then(ConsumeToken(src, l, "["), LAMBDA o :
         Then(parseType(src, o.l), LAMBDA t :
         Then(ConsumeToken(src, t.l, "]"), LAMBDA c :
           Ok(c.l, [Kind |-> "List", Loc |-> Location(l), Type |-> t.node, at |-> l.tok.idx]))))
    ELSE Then(ConsumeIdentWithLoc(src, l), LAMBDA n :
           Ok(n.l, [Kind |-> "Named", Loc |-> Location(l), Name |-> n.node, at |-> l.tok.idx]))

\* A type reference; one '!' after it wraps it in NonNull.
parseType(src, l) ==
    Then(parseNullType(src, l), LAMBDA t :
      IF t.l.tok.kind = "!"
      THEN Then(ConsumeToken(src, t.l, "!"), LAMBDA b :
             Ok(b.l, [Kind |-> "NonNull", Loc |-> Location(l), Type |-> t.node, at |-> l.tok.idx]))
      ELSE t)

\* Name ':' Value pairs up to ')'; an argument value may hold variables.
parseArgumentList(src, l, acc) ==
    IF l.tok.kind = ")" THEN Ok(l, acc)
    ELSE Then(ConsumeIdentWithLoc(src, l), LAMBDA n :
         Then(ConsumeToken(src, n.l, ":"), LAMBDA c :
         Then(parseValueLiteral(src, c.l, FALSE), LAMBDA v :
           parseArgumentList(src, v.l,
               Append(acc, [Kind |-> "Argument", Loc |-> Location(l),
                            Name |-> n.node, Value |-> v.node, at |-> l.tok.idx])))))

\* '(' Argument* ')' when the lookahead is '(' ; no arguments otherwise.
parseArguments(src, l) ==
    IF l.tok.kind # "(" THEN Ok(l, <<>>)
    ELSE Then(ConsumeToken(src, l, "("), LAMBDA o :
         Then(parseArgumentList(src, o.l, <<>>), LAMBDA a :
         Then(ConsumeToken(src, a.l, ")"), LAMBDA c : Ok(c.l, a.node))))

\* ('@' Name Arguments?)*
parseDirectives(src, l, acc) ==
    IF l.tok.kind # "@" THEN Ok(l, acc)
    ELSE Then(ConsumeToken(src, l, "@"), LAMBDA o :
         Then(ConsumeIdentWithLoc(src, o.l), LAMBDA n :
         Then(parseArguments(src, n.l), LAMBDA a :
           parseDirectives(src, a.l,
               Append(acc, [Kind |-> "Directive", Loc |-> Location(l),
                            Name |-> n.node, Arguments |-> a.node, at |-> l.tok.idx])))))

(***************************************************************************)
(* Parser: selections, definitions, document                               *)
(***************************************************************************)

\* ('=' constant Value)? : the default value, nil without '='.
parseDefaultValue(src, l) ==
    IF l.tok.kind # "=" THEN Ok(l, <<>>)
    ELSE Then(ConsumeToken(src, l, "="), LAMBDA e :
         Then(parseValueLiteral(src, e.l, TRUE), LAMBDA v : Ok(v.l, <<v.node>>)))

\* '$' Name ':' Type ('=' constant Value)? Directives? , up to ')'.
parseVariableDefinitions(src, l, acc) ==
    IF l.tok.kind = ")" THEN Ok(l, acc)
    ELSE Then(ConsumeToken(src, l, "$"), LAMBDA d :
         Then(ConsumeIdentWithLoc(src, d.l), LAMBDA n :
         Then(ConsumeToken(src, n.l, ":"), LAMBDA c :
         Then(parseType(src, c.l), LAMBDA t :
         Then(parseDefaultValue(src, t.l), LAMBDA v :
         Then(parseDirectives(src, v.l, <<>>), LAMBDA r :
           parseVariableDefinitions(src, r.l,
               Append(acc,
                      [Kind |-> "VariableDefinition", Loc |-> Location(l),
                       Variable |-> [Kind |-> "Variable", Loc |-> Location(l),
                                     Name |-> n.node, at |-> l.tok.idx],
                       Type |-> t.node,
                       DefaultValue |-> v.node,
                       Directives |-> r.node, at |-> l.tok.idx]))))))))

\* A Field is located wherever the lexer stands once its directives are read.
FieldLocAfterDirectives(first, hasSel, sel) == Location(sel)

\* The Location of a Field parsed from lexer first on: that of its first token, and,
\* when it has a selection set, that of the set's '{' (the lookahead of lexer sel).
FieldLoc(first, hasSel, sel) == IF hasSel THEN Location(sel) ELSE Location(first)

\* Without a colon the alias is left nil.
DefaultAliasNil(name) == <<>>

\* Without a colon the alias is the name itself.
DefaultAlias(name) == <<name>>

\* (Name ':')? Name: [alias, name], the alias being the name when no colon follows.
parseAliasAndName(src, l) ==
    Then(ConsumeIdentWithLoc(src, l), LAMBDA a :
      IF a.l.tok.kind # ":"
      THEN Ok(a.l, [Alias |-> DefaultAlias(a.node), Name |-> a.node])
      ELSE Then(ConsumeToken(src, a.l, ":"), LAMBDA c :
           Then(ConsumeIdentWithLoc(src, c.l), LAMBDA n :
             Ok(n.l, [Alias |-> <<a.node>>, Name |-> n.node]))))

\* SelectionSet? : nil unless the lookahead is '{'.
parseOptionalSelectionSet(src, l) ==
    IF l.tok.kind # "{" THEN Ok(l, <<>>)
    ELSE Then(parseSelectionSet(src, l), LAMBDA s : Ok(s.l, <<s.node>>))

\* (Name ':')? Name Arguments? Directives? SelectionSet?
parseField(src, l) ==
    Then(parseAliasAndName(src, l), LAMBDA n :
    Then(parseArguments(src, n.l), LAMBDA g :
    Then(parseDirectives(src, g.l, <<>>), LAMBDA d :
    Then(parseOptionalSelectionSet(src, d.l), LAMBDA s :
      Ok(s.l, [Kind |-> "Field",
               Loc |-> FieldLoc(l, s.node # <<>>, d.l),
               Alias |-> n.node.Alias,
               Name |-> n.node.Name,
               Arguments |-> g.node,
               Directives |-> d.node,
               SelectionSet |-> s.node,
               at |-> l.tok.idx])))))

\* After '...', the name `on` starts an inline fragment's type condition.
SpreadIsInline(name) == name = "on"

NamedNode(name) == [Kind |-> "Named", Loc |-> name.Loc, Name |-> name, at |-> name.at]

\* After '...' and `on`: Name Directives? SelectionSet.
\* After '...' with no name: Directives? SelectionSet.
parseInlineFragment(src, l, first, named) ==
    Then(IF named THEN ConsumeIdentWithLoc(src, l) ELSE Ok(l, <<>>), LAMBDA t :
    Then(parseDirectives(src, t.l, <<>>), LAMBDA d :
    Then(parseSelectionSet(src, d.l), LAMBDA s :
      Ok(s.l, [Kind |-> "InlineFragment", Loc |-> Location(first),
               TypeCondition |-> IF named THEN <<NamedNode(t.node)>> ELSE <<>>,
               Directives |-> d.node, SelectionSet |-> s.node, at |-> first.tok.idx]))))

\* '...' then: `on` Name Directives? SelectionSet, or Name Directives?, or
\* Directives? SelectionSet.
parseSpread(src, l) ==
    Then(ConsumeToken(src, l, "."), LAMBDA p1 :
    Then(ConsumeToken(src, p1.l, "."), LAMBDA p2 :
    Then(ConsumeToken(src, p2.l, "."), LAMBDA p3 :
      IF p3.l.tok.kind # "Ident" THEN parseInlineFragment(src, p3.l, l, FALSE)
      ELSE Then(ConsumeIdentWithLoc(src, p3.l), LAMBDA x :
             IF SpreadIsInline(x.node.Name) THEN parseInlineFragment(src, x.l, l, TRUE)
             ELSE Then(parseDirectives(src, x.l, <<>>), LAMBDA d :
                    Ok(d.l, [Kind |-> "FragmentSpread", Loc |-> Location(l),
                             Name |-> x.node, Directives |-> d.node, at |-> l.tok.idx]))))))

parseSelection(src, l) ==
    IF l.tok.kind = "." THEN parseSpread(src, l) ELSE parseField(src, l)

\* Selection+ up to '}'.
parseSelections(src, l, acc) ==
    Then(parseSelection(src, l), LAMBDA s :
      IF s.l.tok.kind = "}" THEN Ok(s.l, Append(acc, s.node))
      ELSE parseSelections(src, s.l, Append(acc, s.node)))

\* '{' Selection+ '}', located at the '{'.
parseSelectionSet(src, l) ==
    Then(ConsumeToken(src, l, "{"), LAMBDA o :
    Then(parseSelections(src, o.l, <<>>), LAMBDA s :
    Then(ConsumeToken(src, s.l, "}"), LAMBDA c :
      Ok(c.l, [Kind |-> "SelectionSet", Loc |-> Location(l),
               Selections |-> s.node, at |-> l.tok.idx]))))

OperationNode(first, operation, name, variables, directives, selectionSet) ==
    [Kind |-> "OperationDefinition", Loc |-> Location(first), Operation |-> operation,
     Name |-> name, VariableDefinitions |-> variables, Directives |-> directives,
     SelectionSet |-> selectionSet, at |-> first.tok.idx]

\* Name? : nil unless the lookahead is a Name.
parseOptionalName(src, l) ==
    IF l.tok.kind # "Ident" THEN Ok(l, <<>>)
    ELSE Then(ConsumeIdentWithLoc(src, l), LAMBDA n : Ok(n.l, <<n.node>>))

\* ('(' VariableDefinition* ')')? : none unless the lookahead is '('.
parseOptionalVariableDefinitions(src, l) ==
    IF l.tok.kind # "(" THEN Ok(l, <<>>)
    ELSE Then(ConsumeToken(src, l, "("), LAMBDA o :
         Then(parseVariableDefinitions(src, o.l, <<>>), LAMBDA v :
         Then(ConsumeToken(src, v.l, ")"), LAMBDA c : Ok(c.l, v.node))))

\* After the operation keyword (the lookahead of lexer first): Name? ('(' VariableDefinition* ')')?
\* Directives? SelectionSet.
parseOperation(src, l, first, operation) ==
    Then(parseOptionalName(src, l), LAMBDA n :
    Then(parseOptionalVariableDefinitions(src, n.l), LAMBDA v :
    Then(parseDirectives(src, v.l, <<>>), LAMBDA d :
    Then(parseSelectionSet(src, d.l), LAMBDA s :
      Ok(s.l, OperationNode(first, operation, n.node, v.node, d.node, s.node))))))

\* `on` is accepted as the name of a fragment definition.
FragmentNameAllowedAlways(name) == TRUE

\* Every word with a meaning somewhere in the grammar is refused as a fragment name.
FragmentNameAllowedNoKeyword(name) ==
    name \notin {"on", "fragment", "query", "mutation", "subscription", "true", "false"}

\* A fragment definition may carry any name but `on`.
FragmentNameAllowed(name) == name # "on"

\* After `fragment` (the lookahead of lexer first): Name (not `on`) `on` NamedType Directives? SelectionSet.
parseFragment(src, l, first) ==
    IF l.tok.kind = "Ident" /\ ~FragmentNameAllowed(l.tok.val)
    THEN Fail(SyntaxError(l, UnexpectedNameText(l.tok.val), l.tok))
    ELSE Then(ConsumeIdentWithLoc(src, l), LAMBDA n :
         Then(ConsumeKeyword(src, n.l, "on"), LAMBDA k :
         Then(ConsumeIdentWithLoc(src, k.l), LAMBDA t :
         Then(parseDirectives(src, t.l, <<>>), LAMBDA d :
         Then(parseSelectionSet(src, d.l), LAMBDA s :
           Ok(s.l, [Kind |-> "FragmentDefinition", Loc |-> Location(first),
                    Name |-> n.node,
                    TypeCondition |-> NamedNode(t.node),
                    Directives |-> d.node, SelectionSet |-> s.node,
                    at |-> first.tok.idx]))))))

\* The error for a definition that starts with a Name (the lookahead of lexer l) that
\* is none of query, mutation, subscription, fragment: the name is consumed first, so
\* the Location is that of the lookahead token after it (lexer next).
UnexpectedDefinition(l, next) == SyntaxError(next, UnexpectedText(l.tok.val), l.tok)

OperationKeyword == [query |-> "QUERY", mutation |-> "MUTATION", subscription |-> "SUBSCRIPTION"]

\* One definition: a bare selection set (an anonymous query), or the keyword and
\* what it introduces.
parseDefinition(src, l) ==
    IF l.tok.kind = "{"
    THEN Then(parseSelectionSet(src, l), LAMBDA s :
           Ok(s.l, OperationNode(l, "QUERY", <<>>, <<>>, <<>>, s.node)))
    ELSE Then(ConsumeIdentWithLoc(src, l), LAMBDA x :
           IF x.node.Name \in DOMAIN OperationKeyword
           THEN parseOperation(src, x.l, l, OperationKeyword[x.node.Name])
           ELSE IF x.node.Name = "fragment"
           THEN parseFragment(src, x.l, l)
           ELSE Fail(UnexpectedDefinition(l, x.l)))

\* Definition* up to the end of input; the Document's own Location stays zero.
parseDefinitions(src, l, acc) ==
    IF l.tok.kind = "EOF"
    THEN Ok(l, [Kind |-> "Document", Loc |-> [Line |-> 0, Column |-> 0], Definition |-> acc])
    ELSE Then(parseDefinition(src, l), LAMBDA def :
           parseDefinitions(src, def.l, Append(acc, def.node)))

\* The error of Parse("").
NoSourceError ==
    [Message |-> "Must provide Source. Received: undefined.", Locations |-> <<>>, tok |-> <<>>]

\* What Parse returns for the outcome r of parsing the definitions.
ParseResult(r) ==
    IF r.ok THEN [doc |-> <<r.node>>, err |-> <<>>] ELSE [doc |-> <<>>, err |-> <<r.err>>]

\* Parse(source): [doc, err], one of them nil.
Parse(src) ==
    IF src = <<>> THEN [doc |-> <<>>, err |-> <<NoSourceError>>]
    ELSE With(NewLexer(src), LAMBDA l :
           ParseResult(IF l.tok.kind = "Illegal"
                       THEN Fail(SyntaxError(l, UnexpectedText(l.tok.val), l.tok))
                       ELSE parseDefinitions(src, l, <<>>)))

(***************************************************************************)
(* Inputs: the sources of internal/parser_test.go, their damaged variants, *)
(* and the families of documents the properties below range over           *)
(***************************************************************************)

TestOpenBrace ==
    <<"{">>

TestMissingOn ==
    <<"\n", "      ", "{", " ", ".", ".", ".", "MissingOn", " ", "}", "\n", "      ",
      "fragment", " ", "MissingOn", " ", "Operation", "\n", "    ">>

TestFieldColonBrace ==
    <<"{", " ", "field", ":", " ", "{", "}", " ", "}">>

TestNotAnOperation ==
    <<"notAnOperation", " ", "Foo", " ", "{", " ", "field", " ", "}">>

TestDots ==
    <<".", ".", ".">>

TestEmptyString ==
    <<"{", " ", "\"", "\"">>

TestQuery ==
    <<"query">>

TestVariableInline ==
    <<"{", " ", "field", "(", "complex", ":", " ", "{", " ", "a", ":", " ", "{", " ", "b",
      ":", " ", "[", " ", "$", "var", " ", "]", " ", "}", " ", "}", ")", " ", "}">>

TestConstantDefault ==
    <<"query", " ", "Foo", "(", "$", "x", ":", " ", "Complex", " ", "=", " ", "{", " ",
      "a", ":", " ", "{", " ", "b", ":", " ", "[", " ", "$", "var", " ", "]", " ", "}",
      " ", "}", ")", " ", "{", " ", "field", " ", "}">>

TestVariableDirective ==
    <<"query", " ", "Foo", "(", "$", "x", ":", " ", "Boolean", " ", "=", " ", "false", " ",
      "@", "bar", ")", " ", "{", " ", "field", " ", "}">>

TestFragmentOn ==
    <<"fragment", " ", "on", " ", "on", " ", "on", " ", "{", " ", "on", " ", "}">>

TestSpreadOn ==
    <<"{", " ", ".", ".", ".", "on", " ", "}">>

TestMultiByte ==
    <<"\n", "      ", "#", " ", "This", " ", "comment", " ", "has", " ", "a", " ", "\\",
      "u", "0", "A", "0", "A", " ", "multi", "-", "byte", " ", "character", ".", "\n",
      "      ", "{", " ", "field", "(", "arg", ":", " ", "\"", "Has", " ", "a", " ", "\\",
      "u", "0", "A", "0", "A", " ", "multi", "-", "byte", " ", "character", ".", "\"", ")",
      " ", "}", "\n", "    ">>

TestAnonymousMutation ==
    <<"\n", "      ", "mutation", " ", "{", "\n", "        ", "mutationField", "\n",
      "      ", "}", "\n", "    ">>

TestNamedSubscription ==
    <<"\n", "      ", "subscription", " ", "Foo", " ", "{", "\n", "        ",
      "subscriptionField", "\n", "      ", "}", "\n", "    ">>

TestCreatesAst ==
    <<"\n", "      ", "{", "\n", "        ", "node", "(", "id", ":", " ", "4", ")", " ",
      "{", "\n", "          ", "id", ",", "\n", "          ", "name", "\n", "        ",
      "}", "\n", "      ", "}", "\n", "    ">>

TestNamelessQuery ==
    <<"\n", "      ", "query", " ", "{", "\n", "        ", "node", " ", "{", "\n",
      "          ", "id", "\n", "        ", "}", "\n", "      ", "}", "\n", "    ">>

FullDocument ==
    <<"query", " ", "Foo", "(", "$", "x", ":", " ", "[", "Int", "!", "]", "!", " ", "=",
      " ", "[", "4", ",", " ", "-", "5", ".", "10", ",", " ", "\"", "abc", "\"", ",", " ",
      "null", ",", " ", "true", ",", " ", "E", "]", " ", "@", "bar", "(", "a", ":", " ",
      "4", ")", ",", " ", "$", "var", ":", " ", "Complex", ")", " ", "@", "bar", " ", "{",
      "\n", "  ", "alias", ":", " ", "field", "(", "a", ":", " ", "$", "x", ",", " ", "b",
      ":", " ", "{", "c", ":", " ", "4", "e", "10", "}", ")", " ", "@", "bar", " ", "{",
      "\n", "    ", "a", " ", ".", ".", ".", " ", "@", "bar", " ", "{", " ", "b", " ", "}",
      "\n", "    ", ".", ".", ".", " ", "on", " ", "Foo", " ", "{", " ", "c", ":", " ",
      "a", " ", "}", "\n", "    ", ".", ".", ".", "Foo", " ", "@", "bar", "\n", "  ", "}",
      "\n", "}", "\n", "fragment", " ", "Foo", " ", "on", " ", "Complex", " ", "{", " ",
      "a", " ", "}", "\n">>

AfterDocumentFragmentOn ==
    <<"{", " ", "a", " ", "}", "\n", "fragment", " ", "on", " ", "on", " ", "on", " ", "{",
      " ", "on", " ", "}">>

IllegalCharacter ==
    <<"{", " ", "a", " ", "?", " ", "}">>


NonKeywords == {"on", "fragment", "query", "mutation", "subscription", "true", "false"}

\* fragmentName := keyword, or "a" for `on`.
FragmentNameFor(k) == IF k = "on" THEN "a" ELSE k

KeywordDocument(k) ==
    <<"\n", "        ", "query", " ">>
    \o <<k>>
    \o <<" ", "{", "\n", "          ", ".", ".", ".", " ">>
    \o <<FragmentNameFor(k)>>
    \o <<"\n", "          ", ".", ".", ".", " ", "on", " ">>
    \o <<k>>
    \o <<" ", "{", " ", "field", " ", "}", "\n", "        ", "}", "\n", "        ",
         "fragment", " ">>
    \o <<FragmentNameFor(k)>>
    \o <<" ", "on", " ", "Operation", " ", "{", "\n", "          ">>
    \o <<k>>
    \o <<"(">>
    \o <<k>>
    \o <<":", " ", "$">>
    \o <<k>>
    \o <<")", "\n", "            ", "@">>
    \o <<k>>
    \o <<"(">>
    \o <<k>>
    \o <<":", " ">>
    \o <<k>>
    \o <<")", "\n", "        ", "}", "\n", "      ">>

Wrappers == {"list", "object"}

\* The ways to nest a value in up to MaxDepth list and object values, outermost first.
Nestings == UNION {[1..n -> Wrappers] : n \in 0..MaxDepth}

\* `$var` inside the wrappers ws[k..]: `[ v ]` for a list, `{ a: v }` for an object.
RECURSIVE Nest(_, _)
Nest(ws, k) ==
    IF k > Len(ws) THEN <<"$", "var">>
    ELSE IF ws[k] = "list" THEN <<"[", " ">> \o Nest(ws, k + 1) \o <<" ", "]">>
    ELSE <<"{", " ", "a", ":", " ">> \o Nest(ws, k + 1) \o <<" ", "}">>

\* query Foo($x: Complex = <nested $var>) { field }
DefaultValueDocument(ws) ==
    <<"query", " ", "Foo", "(", "$", "x", ":", " ", "Complex", " ", "=", " ">>
    \o Nest(ws, 1) \o <<")", " ", "{", " ", "field", " ", "}">>

\* { field(complex: <nested $var>) }
ArgumentDocument(ws) ==
    <<"{", " ", "field", "(", "complex", ":", " ">> \o Nest(ws, 1) \o <<")", " ", "}">>

TestSources ==
    {TestOpenBrace, TestMissingOn, TestFieldColonBrace, TestNotAnOperation, TestDots,
     TestEmptyString, TestQuery, TestVariableInline, TestConstantDefault,
     TestVariableDirective, TestFragmentOn, TestSpreadOn, TestMultiByte,
     TestAnonymousMutation, TestNamedSubscription, TestCreatesAst, TestNamelessQuery}

Prefixes(d) == {SubSeq(d, 1, n) : n \in 0..Len(d)}

Deletions(d) == {SubSeq(d, 1, n - 1) \o SubSeq(d, n + 1, Len(d)) : n \in 1..Len(d)}

\* The documents that are also tried cut short and with one run removed.
Damaged == {FullDocument, TestCreatesAst, TestMissingOn, TestNotAnOperation}

Sources ==
    TestSources
    \cup {<<>>, FullDocument, AfterDocumentFragmentOn, IllegalCharacter}
    \cup {KeywordDocument(k) : k \in NonKeywords}
    \cup {DefaultValueDocument(ws) : ws \in Nestings}
    \cup {ArgumentDocument(ws) : ws \in Nestings}
    \cup UNION {Prefixes(d) : d \in Damaged}
    \cup UNION {Deletions(d) : d \in Damaged}

(***************************************************************************)
(* State machine                                                           *)
(***************************************************************************)

\* One call of Parse on one source.
Init ==
    /\ source \in Sources
    /\ pc = "start"
    /\ doc = <<>>
    /\ err = <<>>
    /\ typ = <<>>
    /\ scalar = <<>>
    /\ argument = <<>>
    /\ ref = <<>>

CallParse ==
    /\ pc = "start"
    /\ \E r \in {Parse(source)} :
         /\ doc' = r.doc
         /\ err' = r.err
    /\ pc' = "done"
    /\ UNCHANGED <<source, typ, scalar, argument, ref>>

Next == CallParse

Spec == Init /\ [][Next]_vars

\* NewLexer(text), skipWhitespace, parseType, as TestParseType calls them; next is
\* the kind of the token left as lookahead.
ParseTypeText(text) ==
    With(parseType(text, NewLexer(text)), LAMBDA r :
      IF r.ok THEN [ok |-> TRUE, node |-> r.node, next |-> r.l.tok.kind]
      ELSE [ok |-> FALSE, err |-> r.err])

\* The classifiers and the String / parseType round trip on one schema type.
InitType ==
    /\ typ \in Types
    /\ pc = "types"
    /\ source = <<>>
    /\ doc = <<>>
    /\ err = <<>>
    /\ scalar = <<>>
    /\ argument = <<>>
    /\ ref = <<>>

CallIsScalarType ==
    /\ pc = "types"
    /\ scalar = <<>>
    /\ scalar' = <<IsScalarType(typ)>>
    /\ UNCHANGED <<source, pc, doc, err, typ, argument, ref>>

CallIsArgumentType ==
    /\ pc = "types"
    /\ argument = <<>>
    /\ argument' = <<IsArgumentType(typ)>>
    /\ UNCHANGED <<source, pc, doc, err, typ, scalar, ref>>

CallParseType ==
    /\ pc = "types"
    /\ ref = <<>>
    /\ ref' = <<ParseTypeText(String(typ))>>
    /\ UNCHANGED <<source, pc, doc, err, typ, scalar, argument>>

NextType == CallIsScalarType \/ CallIsArgumentType \/ CallParseType

SpecType == InitType /\ [][NextType]_vars

(***************************************************************************)
(* The results internal/parser_test.go asserts                             *)
(***************************************************************************)

ErrorIs(message, line, column) ==
    /\ doc = <<>>
    /\ Len(err) = 1
    /\ err[1].Message = message
    /\ err[1].Locations = <<[Line |-> line, Column |-> column]>>

TestParserErrors ==
    pc = "done" =>
      /\ source = TestOpenBrace => ErrorIs("Syntax Error: Expected Ident, found \"\".", 1, 2)
      /\ source = TestMissingOn =>
           ErrorIs("Syntax Error: Expected \"on\", found \"Operation\".", 3, 26)
      /\ source = TestFieldColonBrace =>
           ErrorIs("Syntax Error: Expected Ident, found \"{\".", 1, 10)
      /\ source = TestNotAnOperation =>
           ErrorIs("Syntax Error: Unexpected \"notAnOperation\".", 1, 16)
      /\ source = TestDots => ErrorIs("Syntax Error: Expected Ident, found \".\".", 1, 1)
      /\ source = TestEmptyString => ErrorIs("Syntax Error: Expected Ident, found \"\".", 1, 3)
      /\ source = TestQuery => ErrorIs("Syntax Error: Expected \"{\", found \"\".", 1, 6)
      /\ source = TestConstantDefault =>
           ErrorIs("Syntax Error: Unexpected \"\\\"$\\\"\".", 1, 37)
      /\ source = TestFragmentOn => ErrorIs("Syntax Error: Unexpected Name \"on\".", 1, 10)
      /\ source = TestSpreadOn => ErrorIs("Syntax Error: Expected Ident, found \"}\".", 1, 9)
      /\ source = <<>> =>
           doc = <<>> /\ Len(err) = 1
           /\ err[1].Message = "Must provide Source. Received: undefined."

TestParserAccepts ==
    pc = "done"
    /\ source \in {TestVariableInline, TestVariableDirective, TestMultiByte,
                   TestAnonymousMutation, TestNamedSubscription, TestCreatesAst,
                   TestNamelessQuery, FullDocument}
                  \cup {KeywordDocument(k) : k \in NonKeywords}
    => err = <<>> /\ Len(doc) = 1

(***************************************************************************)
(* Reference definitions for the properties: positions counted directly on *)
(* the source, and the nodes of a Document                                 *)
(***************************************************************************)

\* The 1-based line and column of the first character of run idx of src, counted
\* from the text alone (idx = Len(src) + 1: one past the last character).
RunPosition(src, idx) ==
    LET nl == {j \in 1..(idx - 1) : src[j] = "\n"}
        last == IF nl = {} THEN 0 ELSE CHOOSE j \in nl : \A k \in nl : k <= j
    IN  [Line |-> Cardinality(nl) + 1, Column |-> 1 + Width(src, last + 1, idx - 1)]

\* The last run of src that is r.
LastRun(src, r) == CHOOSE j \in 1..Len(src) : src[j] = r /\ \A k \in (j + 1)..Len(src) : src[k] # r

\* The token that starts at run idx, and the token after the one that starts there.
TokenAt(src, idx) == Lex(src, idx, 1, 1).tok

TokenAfter(src, idx) == LET t == Lex(src, idx, 1, 1) IN Lex(src, t.pos, 1, 1).tok

RECURSIVE NodesOf(_)
RECURSIVE NodesOfAll(_, _)
\* Every node of the tree under n, n first.
NodesOf(n) ==
    <<n>> \o
    CASE n.Kind = "Document" -> NodesOfAll(n.Definition, 1)
      [] n.Kind = "OperationDefinition" ->
           NodesOfAll(n.Name, 1) \o NodesOfAll(n.VariableDefinitions, 1)
           \o NodesOfAll(n.Directives, 1) \o NodesOf(n.SelectionSet)
      [] n.Kind = "FragmentDefinition" ->
           NodesOf(n.Name) \o NodesOf(n.TypeCondition) \o NodesOfAll(n.Directives, 1)
           \o NodesOf(n.SelectionSet)
      [] n.Kind = "VariableDefinition" ->
           NodesOf(n.Variable) \o NodesOf(n.Type) \o NodesOfAll(n.DefaultValue, 1)
           \o NodesOfAll(n.Directives, 1)
      [] n.Kind = "SelectionSet" -> NodesOfAll(n.Selections, 1)
      [] n.Kind = "Field" ->
           NodesOfAll(n.Alias, 1) \o NodesOf(n.Name) \o NodesOfAll(n.Arguments, 1)
           \o NodesOfAll(n.Directives, 1) \o NodesOfAll(n.SelectionSet, 1)
      [] n.Kind = "FragmentSpread" -> NodesOf(n.Name) \o NodesOfAll(n.Directives, 1)
      [] n.Kind = "InlineFragment" ->
           NodesOfAll(n.TypeCondition, 1) \o NodesOfAll(n.Directives, 1)
           \o NodesOf(n.SelectionSet)
      [] n.Kind = "Directive" -> NodesOf(n.Name) \o NodesOfAll(n.Arguments, 1)
      [] n.Kind \in {"Argument", "ObjectField"} -> NodesOf(n.Name) \o NodesOf(n.Value)
      [] n.Kind \in {"Variable", "Named"} -> NodesOf(n.Name)
      [] n.Kind \in {"List", "NonNull"} -> NodesOf(n.Type)
      [] n.Kind = "ListValue" -> NodesOfAll(n.Values, 1)
      [] n.Kind = "ObjectValue" -> NodesOfAll(n.Fields, 1)
      [] OTHER -> <<>>

NodesOfAll(ns, k) == IF k > Len(ns) THEN <<>> ELSE NodesOf(ns[k]) \o NodesOfAll(ns, k + 1)

\* The nodes of the Document that Parse returned (none when it failed).
DocumentNodes == IF doc = <<>> THEN <<>> ELSE NodesOf(doc[1])

At(line, column) == [Line |-> line, Column |-> column]

\* "creates ast" and "creates ast from nameless query without variables".
TestParserAst ==
    /\ pc = "done" /\ source = TestCreatesAst =>
         LET op == doc[1].Definition[1]
             f == op.SelectionSet.Selections[1]
             inner == f.SelectionSet[1].Selections
         IN  /\ doc[1].Loc = At(0, 0) /\ Len(doc[1].Definition) = 1
             /\ op.Kind = "OperationDefinition" /\ op.Loc = At(2, 7) /\ op.Operation = "QUERY"
             /\ op.SelectionSet.Loc = At(2, 7) /\ Len(op.SelectionSet.Selections) = 1
             /\ f.Kind = "Field" /\ f.Loc = At(3, 21)
             /\ f.Name.Loc = At(3, 9) /\ f.Name.Name = "node"
             /\ f.Alias[1].Loc = At(3, 9) /\ f.Alias[1].Name = "node"
             /\ Len(f.Arguments) = 1 /\ f.Arguments[1].Loc = At(3, 14)
             /\ f.Arguments[1].Name.Loc = At(3, 14) /\ f.Arguments[1].Name.Name = "id"
             /\ f.Arguments[1].Value.Kind = "IntValue" /\ f.Arguments[1].Value.Loc = At(3, 18)
             /\ f.Arguments[1].Value.Value = "4"
             /\ f.SelectionSet[1].Loc = At(3, 21) /\ Len(inner) = 2
             /\ inner[1].Loc = At(4, 11) /\ inner[1].Name.Loc = At(4, 11)
             /\ inner[1].Name.Name = "id" /\ inner[1].Alias = <<inner[1].Name>>
             /\ inner[2].Loc = At(5, 11) /\ inner[2].Name.Loc = At(5, 11)
             /\ inner[2].Name.Name = "name" /\ inner[2].Alias = <<inner[2].Name>>
    /\ pc = "done" /\ source = TestNamelessQuery =>
         LET op == doc[1].Definition[1]
             f == op.SelectionSet.Selections[1]
         IN  /\ op.Loc = At(2, 7) /\ op.Operation = "QUERY" /\ op.SelectionSet.Loc = At(2, 13)
             /\ f.Loc = At(3, 14) /\ f.Name.Loc = At(3, 9) /\ f.Alias[1].Loc = At(3, 9)
             /\ f.SelectionSet[1].Loc = At(3, 14)
             /\ f.SelectionSet[1].Selections[1].Loc = At(4, 11)
    /\ pc = "done" /\ source = TestMultiByte =>
         doc[1].Definition[1].SelectionSet.Selections[1].Arguments[1].Value.Value
           = "Has a \\u0A0A multi-byte character."

\* TestParseType and TestParseValueLiteral.
TestParseTypeAndValue ==
    LET named == ParseTypeText(<<"MyType">>).node
        list == ParseTypeText(<<"[", "MyType", "]">>).node
        nonNull == ParseTypeText(<<"MyType", "!">>).node
        nested == ParseTypeText(<<"[", "MyType", "!", "]">>).node
        values == <<"[", "123", " ", "\"", "abc", "\"", "]">>
        lit == parseValueLiteral(values, NewLexer(values), FALSE).node
        null == parseValueLiteral(<<"null">>, NewLexer(<<"null">>), FALSE).node
    IN  /\ named.Kind = "Named" /\ named.Loc = At(1, 1)
        /\ named.Name.Name = "MyType" /\ named.Name.Loc = At(1, 1)
        /\ list.Kind = "List" /\ list.Loc = At(1, 1)
        /\ list.Type.Kind = "Named" /\ list.Type.Loc = At(1, 2) /\ list.Type.Name.Loc = At(1, 2)
        /\ nonNull.Kind = "NonNull" /\ nonNull.Loc = At(1, 1)
        /\ nonNull.Type.Kind = "Named" /\ nonNull.Type.Loc = At(1, 1)
        /\ nested.Kind = "List" /\ nested.Loc = At(1, 1)
        /\ nested.Type.Kind = "NonNull" /\ nested.Type.Loc = At(1, 2)
        /\ nested.Type.Type.Kind = "Named" /\ nested.Type.Type.Loc = At(1, 2)
        /\ nested.Type.Type.Name.Name = "MyType"
        /\ null.Kind = "NullValue" /\ null.Loc = At(1, 1)
        /\ lit.Kind = "ListValue" /\ lit.Loc = At(1, 1) /\ Len(lit.Values) = 2
        /\ lit.Values[1].Kind = "IntValue" /\ lit.Values[1].Loc = At(1, 2)
        /\ lit.Values[1].Value = "123"
        /\ lit.Values[2].Kind = "StringValue" /\ lit.Values[2].Loc = At(1, 6)
        /\ lit.Values[2].Value = "abc"

(***************************************************************************)
(* Properties                                                              *)
(***************************************************************************)

ExpectedNames == {"Ident", "\"on\""} \cup {TokenString(k) : k \in Punct}

\* The texts a syntax error about token t can carry after "Syntax Error: ".
SyntaxErrorTexts(t) ==
    {ExpectedText(x, t.val) : x \in ExpectedNames}
    \cup {UnexpectedText(t.val), UnexpectedNameText(t.val), UnexpectedTokenText(t.kind)}

\* Message begins "Syntax Error: ".
BeginsSyntaxError(e) ==
    e.tok # <<>> /\ \E text \in SyntaxErrorTexts(e.tok) : e.Message = "Syntax Error: " \o text

OneSyntaxError ==
    /\ doc = <<>>
    /\ Len(err) = 1
    /\ BeginsSyntaxError(err[1])
    /\ Len(err[1].Locations) = 1

\* C1 as stated: whenever Parse fails, on any source text, the error is one
\* GraphQLError whose Message begins "Syntax Error: " and that holds exactly one
\* Location.
C1_AnyFailureIsOneSyntaxError == pc = "done" /\ err # <<>> => OneSyntaxError

\* C1, amended: whenever Parse fails on a non-empty source text, the error is one
\* GraphQLError whose Message begins "Syntax Error: " and that holds exactly one
\* Location (the empty source fails with "Must provide Source. Received:
\* undefined." and no Location).
C1_NonEmptyFailureIsOneSyntaxError ==
    pc = "done" /\ err # <<>> /\ source # <<>> => OneSyntaxError

C1_Witness ==
    /\ pc = "done"
    /\ source = TestMissingOn
    /\ err # <<>>
    /\ err[1].Locations = <<At(3, 26)>>

\* The position of the `$` of `$var` in a document of the two families.
VariablePosition(src) == RunPosition(src, LastRun(src, "$"))

ConstantFlagInherited(message) ==
    pc = "done" =>
      \A ws \in Nestings :
        /\ source = DefaultValueDocument(ws) =>
             ErrorIs(message, VariablePosition(source).Line, VariablePosition(source).Column)
        /\ source = ArgumentDocument(ws) => err = <<>> /\ Len(doc) = 1

\* C2 as stated: a `$` variable at any nesting depth of list and object values
\* inside a variable-definition default value makes Parse fail with Syntax Error
\* 'Unexpected "$".' located at that `$`; at any nesting depth inside an argument
\* value it is accepted.
C2_ConstantFlagInherited == ConstantFlagInherited("Syntax Error: Unexpected \"$\".")

\* C2, amended: the same, with the message the program produces: the token's
\* quoted name quoted once more, 'Unexpected "\"$\"".'.
C2_ConstantFlagInheritedQuoted == ConstantFlagInherited("Syntax Error: Unexpected \"\\\"$\\\"\".")

C2_Witness ==
    /\ pc = "done"
    /\ source = DefaultValueDocument(<<"object", "list", "object">>)
    /\ err # <<>>
    /\ err[1].Message = "Syntax Error: Unexpected \"\\\"$\\\"\"."
    /\ err[1].Locations = <<At(1, 37)>>

\* C3: for each of on, fragment, query, mutation, subscription, true, false, the
\* document that uses the word as operation name, inline-fragment type condition,
\* field name, argument name, variable name, directive name, directive argument
\* name and value, and (except `on`) as fragment definition and spread name parses
\* with no error, and the word is the Name at each of these places.
C3_NonKeywordsAreNames ==
    pc = "done" =>
      \A k \in NonKeywords :
        source = KeywordDocument(k) =>
          /\ err = <<>>
          /\ Len(doc) = 1
          /\ LET op == doc[1].Definition[1]
                 frag == doc[1].Definition[2]
                 f == frag.SelectionSet.Selections[1]
             IN  /\ op.Kind = "OperationDefinition" /\ op.Name[1].Name = k
                 /\ op.SelectionSet.Selections[1].Kind = "FragmentSpread"
                 /\ op.SelectionSet.Selections[1].Name.Name = FragmentNameFor(k)
                 /\ op.SelectionSet.Selections[2].Kind = "InlineFragment"
                 /\ op.SelectionSet.Selections[2].TypeCondition[1].Name.Name = k
                 /\ frag.Kind = "FragmentDefinition" /\ frag.Name.Name = FragmentNameFor(k)
                 /\ f.Kind = "Field" /\ f.Name.Name = k
                 /\ f.Arguments[1].Name.Name = k
                 /\ f.Arguments[1].Value.Kind = "Variable"
                 /\ f.Arguments[1].Value.Name.Name = k
                 /\ f.Directives[1].Name.Name = k
                 /\ f.Directives[1].Arguments[1].Name.Name = k
                 /\ f.Directives[1].Arguments[1].Value.Value = k

C3_Witness ==
    /\ pc = "done"
    /\ source = KeywordDocument("fragment")
    /\ Len(doc) = 1
    /\ doc[1].Definition[2].Name.Name = "fragment"

\* Node n is located at the first character of its first token.
AtFirstToken(n) == n.Loc = RunPosition(source, n.at)

\* C4 as stated: in every Document that Parse returns, the Location of every node
\* other than the Document is the line and column of the node's first token; in
\* particular a Field is located at its alias-or-name token.
C4_NodesAtFirstToken ==
    pc = "done" =>
      \A i \in 1..Len(DocumentNodes) :
        DocumentNodes[i].Kind # "Document" => AtFirstToken(DocumentNodes[i])

\* C4, amended: the same for every node other than the Document and a Field that
\* has a selection set; a Field that has a selection set is located at the `{`
\* of that selection set.
C4_NodesAtFirstTokenButFieldWithSelections ==
    pc = "done" =>
      \A i \in 1..Len(DocumentNodes) :
        LET n == DocumentNodes[i]
        IN  CASE n.Kind = "Document" -> TRUE
              [] n.Kind = "Field" /\ n.SelectionSet # <<>> ->
                   n.Loc = RunPosition(source, n.SelectionSet[1].at)
              [] OTHER -> AtFirstToken(n)

C4_Witness ==
    /\ pc = "done"
    /\ source = FullDocument
    /\ Len(doc) = 1
    /\ \E i \in 1..Len(DocumentNodes) :
         /\ DocumentNodes[i].Kind = "Field"
         /\ DocumentNodes[i].Alias[1].Loc = At(2, 3)
         /\ DocumentNodes[i].Loc = At(2, 42)

\* C5 as stated: a syntax error raised because a token was unexpected is located
\* at the first character of that token (for the end of input: one past the last
\* character), on whichever line the token sits.
C5_ErrorAtOffendingToken ==
    pc = "done" /\ err # <<>> /\ err[1].tok # <<>> =>
      err[1].Locations = <<RunPosition(source, err[1].tok.idx)>>

\* The error 'Unexpected "<name>".' for a definition that starts with a Name
\* other than query, mutation, subscription, fragment.
IsUnexpectedDefinition(e) ==
    e.tok.kind = "Ident" /\ e.Message = "Syntax Error: " \o UnexpectedText(e.tok.val)

\* C5, amended: the same, except for the error 'Unexpected "<name>".' about a
\* definition that starts with a Name other than query, mutation, subscription,
\* fragment: that error is located at the first character of the token that
\* follows the name.
C5_ErrorAtOffendingTokenButDefinition ==
    pc = "done" /\ err # <<>> /\ err[1].tok # <<>> =>
      err[1].Locations =
        <<RunPosition(source,
                      IF IsUnexpectedDefinition(err[1])
                      THEN TokenAfter(source, err[1].tok.idx).idx
                      ELSE err[1].tok.idx)>>

C5_Witness ==
    /\ pc = "done"
    /\ err # <<>>
    /\ err[1].tok # <<>>
    /\ err[1].tok.kind = "Ident"
    /\ ~IsUnexpectedDefinition(err[1])
    /\ err[1].Locations[1].Line = 4
    /\ err[1].Locations[1].Column > 1

\* The sources with a fragment definition whose name token is `on`.
FragmentOnSources == {TestFragmentOn, AfterDocumentFragmentOn}

\* C6: a fragment definition whose name token is `on` makes Parse fail with
\* 'Unexpected Name "on".' at that token; `{ ...on }` fails with
\* 'Expected Ident, found "}".' at the `}`; and no Document that Parse returns
\* holds a FragmentDefinition or a FragmentSpread named `on`.
C6_NoFragmentNamedOn ==
    pc = "done" =>
      /\ source \in FragmentOnSources =>
           LET p == RunPosition(source, LastRun(source, "fragment") + 2)
           IN  ErrorIs("Syntax Error: Unexpected Name \"on\".", p.Line, p.Column)
      /\ source = TestSpreadOn =>
           LET p == RunPosition(source, LastRun(source, "}"))
           IN  ErrorIs("Syntax Error: Expected Ident, found \"}\".", p.Line, p.Column)
      /\ \A i \in 1..Len(DocumentNodes) :
           DocumentNodes[i].Kind \in {"FragmentDefinition", "FragmentSpread"}
             => DocumentNodes[i].Name.Name # "on"

C6_Witness ==
    /\ pc = "done"
    /\ source = AfterDocumentFragmentOn
    /\ err # <<>>
    /\ err[1].Locations = <<At(2, 10)>>

\* C10: in every Document that Parse returns, every Field has an Alias; written
\* without `alias:` the Alias equals the Name (text and Location); written as
\* `alias: name` the Alias is the name before the colon and the Name the one
\* after it.
C10_FieldAlias ==
    pc = "done" =>
      \A i \in 1..Len(DocumentNodes) :
        LET n == DocumentNodes[i]
            t1 == TokenAt(source, n.at)
            t2 == TokenAfter(source, n.at)
            t3 == TokenAfter(source, t2.idx)
        IN  n.Kind = "Field" =>
              /\ Len(n.Alias) = 1
              /\ IF t2.kind = ":"
                 THEN /\ n.Alias[1].Name = t1.val
                      /\ n.Alias[1].Loc = RunPosition(source, t1.idx)
                      /\ n.Name.Name = t3.val
                      /\ n.Name.Loc = RunPosition(source, t3.idx)
                 ELSE /\ n.Alias[1].Name = n.Name.Name
                      /\ n.Alias[1].Loc = n.Name.Loc
                      /\ n.Name.Name = t1.val
                      /\ n.Name.Loc = RunPosition(source, t1.idx)

C10_Witness ==
    /\ pc = "done"
    /\ source = FullDocument
    /\ Len(doc) = 1
    /\ \E i, j \in 1..Len(DocumentNodes) :
         /\ DocumentNodes[i].Kind = "Field"
         /\ DocumentNodes[i].Alias[1].Name = "alias"
         /\ DocumentNodes[i].Name.Name = "field"
         /\ DocumentNodes[j].Kind = "Field"
         /\ DocumentNodes[j].Alias[1].Name = "b"
         /\ DocumentNodes[j].Name.Name = "b"

\* The named type inside all the List and NonNull wrappers of t.
RECURSIVE Innermost(_)
Innermost(t) == IF t.kind \in {"List", "NonNull"} THEN Innermost(t.Type) ELSE t

\* C7: IsArgumentType is true exactly when the innermost type is a Scalar, an
\* InputObject or an Enum (so false for an Object, an Interface or a Union).
C7_IsArgumentType ==
    argument # <<>> => argument[1] = (Innermost(typ).kind \in {"Scalar", "InputObject", "Enum"})

C7_Witness ==
    /\ typ = NonNull(List(NonNull([kind |-> "Enum", Name |-> "Foo"])))
    /\ argument = <<TRUE>>

\* C8: IsScalarType is true exactly when the innermost type is a Scalar; it is
\* false for an Enum at any wrapping depth.
C8_IsScalarType == scalar # <<>> => scalar[1] = (Innermost(typ).kind = "Scalar")

C8_Witness ==
    /\ typ = List(NonNull(List([kind |-> "Enum", Name |-> "Foo"])))
    /\ scalar = <<FALSE>>

\* The type reference a has the nesting and the name of the schema type t.
RECURSIVE SameShape(_, _)
SameShape(t, a) ==
    CASE t.kind = "List" -> a.Kind = "List" /\ SameShape(t.Type, a.Type)
      [] t.kind = "NonNull" -> a.Kind = "NonNull" /\ SameShape(t.Type, a.Type)
      [] OTHER -> a.Kind = "Named" /\ a.Name.Name = t.Name

\* t holds a NonNull directly around a NonNull.
RECURSIVE NonNullOfNonNull(_)
NonNullOfNonNull(t) ==
    /\ t.kind \in {"List", "NonNull"}
    /\ \/ t.kind = "NonNull" /\ t.Type.kind = "NonNull"
       \/ NonNullOfNonNull(t.Type)

\* C9 as stated: for any nesting of List and NonNull around a named type, the
\* text of String(), parsed by parseType, yields a type reference with the same
\* nesting and the same name.
C9_RoundTrip == ref # <<>> => ref[1].ok /\ SameShape(typ, ref[1].node)

\* C9, amended: the same for any nesting of List and NonNull in which no NonNull
\* directly wraps a NonNull (parseType reads one `!` after a type, so "Foo!!"
\* comes back as NonNull(Foo)).
C9_RoundTripSingleNonNull ==
    ref # <<>> /\ ~NonNullOfNonNull(typ) => ref[1].ok /\ SameShape(typ, ref[1].node)

C9_Witness ==
    /\ typ = NonNull(List(NonNull([kind |-> "Object", Name |-> "Foo"])))
    /\ ref # <<>>
    /\ ref[1].ok
    /\ ref[1].next = "EOF"
    /\ ref[1].node.Kind = "NonNull"
    /\ ref[1].node.Type.Type.Type.Name.Name = "Foo"

\* C11: for every type, IsScalarType true implies IsArgumentType true; the
\* converse fails (IsArgumentType true, IsScalarType false) exactly when the
\* innermost type is an Enum or an InputObject.
C11_ScalarImpliesArgument ==
    scalar # <<>> /\ argument # <<>> =>
      /\ scalar[1] => argument[1]
      /\ (argument[1] /\ ~scalar[1]) = (Innermost(typ).kind \in {"Enum", "InputObject"})

C11_Witness ==
    /\ typ = NonNull(List(NonNull([kind |-> "Scalar", Name |-> "Int"])))
    /\ scalar = <<TRUE>>
    /\ argument = <<TRUE>>

====
